---- MODULE Spec2Model ----
(***************************************************************************)
(* Model of the lottery backend (src/main.py): the round and entry         *)
(* collections, the external ledger, and the request handlers              *)
(* create_round, enter_round, reverify_entry and draw_winner.  Handlers    *)
(* run concurrently (one worker thread per request); every database call   *)
(* and every ledger query is one atomic step of the handler that makes it. *)
(***************************************************************************)
EXTENDS Integers, Sequences, FiniteSets, TLC

\* ---------------------------------------------------------------- bounds
NumProcs == 2
MaxRequests == 3
MaxTime == 1

\* ---------------------------------------------------------------- inputs
Procs == 1..NumProcs
RoundIds == {"R-1", "R-2"}
Wallets == {"W1", "W2"}
Sigs == {"SIG1", "SIG2"}
Treasuries == {"TREASURY1"}
Fees == {1000000}
Networks == {"devnet"}

\* Optional[...] fields: None is the empty sequence, a value v is <<v>>.
None == <<>>
Some(v) == <<v>>

\* ------------------------------------------------------- ledger verifier
NETWORK_ENDPOINTS ==
  [n \in {"devnet", "testnet", "mainnet-beta"} |->
     CASE n = "devnet" -> "https://api.devnet.solana.com"
       [] n = "testnet" -> "https://api.testnet.solana.com"
       [] n = "mainnet-beta" -> "https://api.mainnet-beta.solana.com"]

\* NETWORK_ENDPOINTS.get(network, NETWORK_ENDPOINTS["devnet"])
Endpoint(network) ==
  IF network \in DOMAIN NETWORK_ENDPOINTS
    THEN NETWORK_ENDPOINTS[network]
    ELSE NETWORK_ENDPOINTS["devnet"]

\* What one getTransaction call can produce: an exception (timeout, transport
\* failure, malformed body), a body without a result (missing or null), or a
\* transaction with meta absent, meta.err null ("ok") or meta.err set ("err").
RpcException == [kind |-> "exception", meta |-> "absent", accountKeys |-> {}]
RpcNoResult == [kind |-> "noresult", meta |-> "absent", accountKeys |-> {}]
RpcTx(meta, keys) == [kind |-> "tx", meta |-> meta, accountKeys |-> keys]

\* Python truthiness of an Optional[str] argument: None and "" are falsy.
Truthy(optstr) == optstr # None /\ optstr[1] # ""

\* Mutant: a transaction that failed on chain is judged by its accounts alone.
VerdictIgnoresErr(rpc, expected_wallet, expected_treasury) ==
  CASE rpc.kind = "exception" -> FALSE
    [] rpc.kind = "noresult" -> FALSE
    [] OTHER ->
       IF Truthy(expected_wallet) /\ expected_wallet[1] \notin rpc.accountKeys
         THEN FALSE
       ELSE IF Truthy(expected_treasury) /\ expected_treasury[1] \notin rpc.accountKeys
         THEN FALSE
       ELSE TRUE

\* The verdict verify_signature_on_chain computes from the RPC outcome.
Verdict(rpc, expected_wallet, expected_treasury) ==
  CASE rpc.kind = "exception" -> FALSE
    [] rpc.kind = "noresult" -> FALSE
    [] OTHER ->
       IF rpc.meta = "err" THEN FALSE
       ELSE IF Truthy(expected_wallet) /\ expected_wallet[1] \notin rpc.accountKeys
         THEN FALSE
       ELSE IF Truthy(expected_treasury) /\ expected_treasury[1] \notin rpc.accountKeys
         THEN FALSE
       ELSE TRUE

\* The ledger: a signature names one transaction, which an endpoint either
\* does not know (yet, or any more after a rollback) or returns.
TxOf ==
  [s \in Sigs |->
     CASE s = "SIG1" -> RpcTx("ok", {"W1", "TREASURY1"})
       [] s = "SIG2" -> RpcTx("ok", {"W2", "TREASURY1"})]

Endpoints == { Endpoint(n) : n \in Networks }

\* getTransaction on endpoint e for signature s, when the ledger is l.
GetTransaction(l, e, s) == IF l[e][s] THEN TxOf[s] ELSE RpcNoResult

\* ----------------------------------------------------------------- state
VARIABLES
  rounds,    \* collection "lotteryround": documents in insertion order (_id = index)
  entries,   \* collection "entry": documents in insertion order (_id = index)
  ledger,    \* per endpoint and signature: the endpoint knows the transaction
  now,       \* the clock now_utc() reads
  req,       \* per worker: the request it is serving and the handler's locals
  nreq,      \* requests accepted so far
  checks,    \* history: per entry, the most recent ledger check made for it
  call       \* one call of verify_signature_on_chain on its own: arguments,
             \* RPC outcome, position and return value

vars == <<rounds, entries, ledger, now, req, nreq, checks, call>>

\* One ledger check: the handler that made it, whether the endpoint knew the
\* transaction when it was queried, what the query produced, and the verdict
\* the verifier returned.
LedgerCheck(by, known, kind, verdict) ==
  [by |-> by, known |-> known, kind |-> kind, verdict |-> verdict]

NoCheck == LedgerCheck("none", FALSE, "none", FALSE)

IdleReq ==
  [ op |-> "none", pc |-> "idle",
    round_id |-> "", wallet_address |-> "", tx_signature |-> "",
    network |-> "", treasury_address |-> "", entry_fee_lamports |-> 0,
    entry_id |-> 0, verified |-> FALSE, winner |-> None,
    status |-> 0, detail |-> "", queried |-> FALSE, check |-> NoCheck ]

Free(p) == req[p].pc \in {"idle", "done"} /\ nreq < MaxRequests

\* A handler returning normally, or raising HTTPException(status, detail).
\* The worker keeps the request and its response until it takes the next request;
\* the handler's other locals die with the call.
Respond(p, r, status, detail) ==
  req' = [req EXCEPT ![p] =
            [IdleReq EXCEPT !.op = r.op, !.pc = "done",
                            !.round_id = r.round_id,
                            !.tx_signature = r.tx_signature,
                            !.winner = r.winner,
                            !.queried = r.queried,
                            !.status = status, !.detail = detail]]

\* ---------------------------------------------------------- store access
\* find_one, find().limit(1) and the target of update_one: of the documents
\* (indexes) that match the filter, the first in the collection; 0 when none.
FindOne(matching) ==
  IF matching = {} THEN 0
  ELSE CHOOSE i \in matching : \A j \in matching : i <= j

\* find({"round_id": round_id}).limit(1) on a round collection: 0 raises 404.
FindRound(coll, round_id) ==
  FindOne({ i \in 1..Len(coll) : coll[i].round_id = round_id })

get_round(round_id) == FindRound(rounds, round_id)

\* Mutant: the handlers take every round for open.
RoundAlwaysActive(d) == TRUE

\* r.get("is_active", False) on a round document.
RoundIsActive(d) == d.is_active

\* Mutant: the find of the draw drops its verified filter.
EntriesOfRound(round_id) ==
  { i \in 1..Len(entries) : entries[i].round_id = round_id }

\* db["entry"].find({"round_id": round_id, "verified": True})
VerifiedEntries(round_id) ==
  { i \in 1..Len(entries) : entries[i].round_id = round_id /\ entries[i].verified }

\* One getTransaction call: the endpoint's answer, or an exception (timeout,
\* connection error, undecodable body).
RpcOutcomes(network, tx_signature) ==
  { RpcException, GetTransaction(ledger, Endpoint(network), tx_signature) }

verify_signature_on_chain(rpc, expected_wallet, expected_treasury) ==
  Verdict(rpc, expected_wallet, expected_treasury)

\* ------------------------------------------------------------------ Init
\* The database outlives the process: the service starts on an empty database
\* or on one that earlier runs filled.  SeedRounds/SeedEntries is the database
\* after create("R-2"), a landed SIG1 and enter("R-2", "W1", "SIG1").
SeedRounds ==
  << [ round_id |-> "R-2", is_active |-> TRUE, entry_fee_lamports |-> 1000000,
       treasury_address |-> "TREASURY1", network |-> "devnet",
       winner_address |-> None, drawn_at |-> None,
       created_at |-> 0, updated_at |-> 0 ] >>

SeedChecks == << LedgerCheck("enter", TRUE, "tx", TRUE) >>

SeedEntries ==
  << [ round_id |-> "R-2", wallet_address |-> "W1", tx_signature |-> "SIG1",
       verified |-> TRUE, created_at |-> 0, updated_at |-> 0 ] >>

\* A call of the verifier: its optional arguments, what the RPC produced, and
\* what it returned.
VerifierCall(pc, expected_wallet, expected_treasury, rpc, result) ==
  [ pc |-> pc, expected_wallet |-> expected_wallet,
    expected_treasury |-> expected_treasury, rpc |-> rpc, result |-> result ]

NoCall == VerifierCall("none", None, None, RpcNoResult, FALSE)

Init ==
  /\ \/ /\ rounds = <<>>
        /\ entries = <<>>
        /\ ledger = [e \in Endpoints |-> [s \in Sigs |-> FALSE]]
        /\ checks = <<>>
     \/ /\ rounds = SeedRounds
        /\ entries = SeedEntries
        /\ ledger = [e \in Endpoints |-> [s \in Sigs |-> s = "SIG1"]]
        /\ checks = SeedChecks
  /\ now = 0
  /\ req = [p \in Procs |-> IdleReq]
  /\ nreq = 0
  /\ call = NoCall

\* ----------------------------------------------------------- environment
Tick ==
  /\ now < MaxTime
  /\ now' = now + 1
  /\ UNCHANGED <<rounds, entries, ledger, req, nreq, checks, call>>

LedgerChange ==
  /\ \E e \in Endpoints, s \in Sigs :
       ledger' = [ledger EXCEPT ![e][s] = ~ledger[e][s]]
  /\ UNCHANGED <<rounds, entries, now, req, nreq, checks, call>>

\* ---------------------------------------------------------- create_round
\* POST /api/rounds: the request arrives and the handler runs find_one.
CreateFind(p) ==
  /\ Free(p)
  /\ \E rid \in RoundIds, fee \in Fees, t \in Treasuries, n \in Networks :
       LET r == [IdleReq EXCEPT !.op = "create", !.round_id = rid,
                   !.entry_fee_lamports = fee, !.treasury_address = t, !.network = n]
       IN IF get_round(rid) # 0
            THEN Respond(p, r, 400, "round_id already exists")
            ELSE req' = [req EXCEPT ![p] = [r EXCEPT !.pc = "insert"]]
  /\ nreq' = nreq + 1
  /\ UNCHANGED <<rounds, entries, ledger, now, checks, call>>

NewRound(r) ==
  [ round_id |-> r.round_id,
    is_active |-> TRUE,
    entry_fee_lamports |-> r.entry_fee_lamports,
    treasury_address |-> r.treasury_address,
    network |-> r.network,
    winner_address |-> None,
    drawn_at |-> None,
    created_at |-> now,
    updated_at |-> now ]

CreateInsert(p) ==
  /\ req[p].op = "create" /\ req[p].pc = "insert"
  /\ rounds' = Append(rounds, NewRound(req[p]))
  /\ Respond(p, req[p], 200, "")
  /\ UNCHANGED <<entries, ledger, now, nreq, checks, call>>

\* ----------------------------------------------------------- enter_round
\* POST /api/rounds/{round_id}/enter: the request arrives, get_round runs and
\* the handler tests is_active on the document it read.
EnterGetRound(p) ==
  /\ Free(p)
  /\ \E rid \in RoundIds, w \in Wallets, s \in Sigs :
       LET r == [IdleReq EXCEPT !.op = "enter", !.round_id = rid,
                   !.wallet_address = w, !.tx_signature = s]
           i == get_round(rid)
       IN IF i = 0 THEN Respond(p, r, 404, "Round not found")
          ELSE IF ~RoundIsActive(rounds[i]) THEN Respond(p, r, 400, "Round is closed")
          ELSE req' = [req EXCEPT ![p] =
                         [r EXCEPT !.pc = "find_dup",
                                   !.network = rounds[i].network,
                                   !.treasury_address = rounds[i].treasury_address]]
  /\ nreq' = nreq + 1
  /\ UNCHANGED <<rounds, entries, ledger, now, checks, call>>

\* Mutant: the duplicate check looks only at the entries of the request's round.
DuplicateInRound(d, r) ==
  d.round_id = r.round_id /\ d.tx_signature = r.tx_signature

\* The filter {"tx_signature": body.tx_signature} of the duplicate check.
DuplicateFilter(d, r) == d.tx_signature = r.tx_signature

\* existing = db["entry"].find_one({"tx_signature": body.tx_signature})
EnterFindDup(p) ==
  /\ req[p].op = "enter" /\ req[p].pc = "find_dup"
  /\ LET existing == FindOne({ i \in 1..Len(entries) : DuplicateFilter(entries[i], req[p]) })
     IN IF existing # 0
          THEN Respond(p, req[p], 400, "This transaction was already submitted")
          ELSE req' = [req EXCEPT ![p].pc = "verify"]
  /\ UNCHANGED <<rounds, entries, ledger, now, nreq, checks, call>>

EnterVerify(p) ==
  /\ req[p].op = "enter" /\ req[p].pc = "verify"
  /\ \E rpc \in RpcOutcomes(req[p].network, req[p].tx_signature) :
       LET verified == verify_signature_on_chain(rpc,
                         Some(req[p].wallet_address), Some(req[p].treasury_address))
       IN req' = [req EXCEPT ![p].pc = "insert", ![p].queried = TRUE,
                    ![p].verified = verified,
                    ![p].check = LedgerCheck("enter",
                       ledger[Endpoint(req[p].network)][req[p].tx_signature],
                       rpc.kind, verified)]
  /\ UNCHANGED <<rounds, entries, ledger, now, nreq, checks, call>>

\* Mutant: the entry is stored with the schema's default verified = False.
NewEntryUnverified(r) ==
  [ round_id |-> r.round_id,
    wallet_address |-> r.wallet_address,
    tx_signature |-> r.tx_signature,
    verified |-> FALSE,
    created_at |-> now,
    updated_at |-> now ]

NewEntry(r) ==
  [ round_id |-> r.round_id,
    wallet_address |-> r.wallet_address,
    tx_signature |-> r.tx_signature,
    verified |-> r.verified,
    created_at |-> now,
    updated_at |-> now ]

EnterInsert(p) ==
  /\ req[p].op = "enter" /\ req[p].pc = "insert"
  /\ entries' = Append(entries, NewEntry(req[p]))
  /\ checks' = Append(checks, req[p].check)
  /\ Respond(p, [req[p] EXCEPT !.entry_id = Len(entries) + 1], 200, "")
  /\ UNCHANGED <<rounds, ledger, now, nreq, call>>

\* -------------------------------------------------------- reverify_entry
ReverifyGetRound(p) ==
  /\ Free(p)
  /\ \E rid \in RoundIds, s \in Sigs :
       LET r == [IdleReq EXCEPT !.op = "reverify", !.round_id = rid, !.tx_signature = s]
           i == get_round(rid)
       IN IF i = 0 THEN Respond(p, r, 404, "Round not found")
          ELSE req' = [req EXCEPT ![p] =
                         [r EXCEPT !.pc = "find_entry",
                                   !.network = rounds[i].network,
                                   !.treasury_address = rounds[i].treasury_address]]
  /\ nreq' = nreq + 1
  /\ UNCHANGED <<rounds, entries, ledger, now, checks, call>>

\* Mutant: the entry is looked up by its signature alone, in any round.
ReverifyFilterBySignature(d, r) ==
  d.tx_signature = r.tx_signature

\* The filter {"round_id": round_id, "tx_signature": tx_signature}.
ReverifyFilter(d, r) ==
  d.round_id = r.round_id /\ d.tx_signature = r.tx_signature

\* db["entry"].find_one({"round_id": round_id, "tx_signature": tx_signature})
ReverifyFindEntry(p) ==
  /\ req[p].op = "reverify" /\ req[p].pc = "find_entry"
  /\ LET i == FindOne({ j \in 1..Len(entries) : ReverifyFilter(entries[j], req[p]) })
     IN IF i = 0 THEN Respond(p, req[p], 404, "Entry not found")
        ELSE req' = [req EXCEPT ![p].pc = "verify", ![p].entry_id = i,
                       ![p].wallet_address = entries[i].wallet_address]
  /\ UNCHANGED <<rounds, entries, ledger, now, nreq, checks, call>>

\* Mutant: the re-check passes no expected wallet to the verifier.
ReverifyVerifyNoWallet(p) ==
  /\ req[p].op = "reverify" /\ req[p].pc = "verify"
  /\ \E rpc \in RpcOutcomes(req[p].network, req[p].tx_signature) :
       LET verified == verify_signature_on_chain(rpc,
                         None, Some(req[p].treasury_address))
       IN /\ req' = [req EXCEPT ![p].pc = "update", ![p].queried = TRUE,
                       ![p].verified = verified]
          /\ checks' = [checks EXCEPT ![req[p].entry_id] = LedgerCheck("reverify",
                          ledger[Endpoint(req[p].network)][req[p].tx_signature],
                          rpc.kind, verified)]
  /\ UNCHANGED <<rounds, entries, ledger, now, nreq, call>>

ReverifyVerify(p) ==
  /\ req[p].op = "reverify" /\ req[p].pc = "verify"
  /\ \E rpc \in RpcOutcomes(req[p].network, req[p].tx_signature) :
       LET verified == verify_signature_on_chain(rpc,
                         Some(req[p].wallet_address), Some(req[p].treasury_address))
       IN /\ req' = [req EXCEPT ![p].pc = "update", ![p].queried = TRUE,
                       ![p].verified = verified]
          /\ checks' = [checks EXCEPT ![req[p].entry_id] = LedgerCheck("reverify",
                          ledger[Endpoint(req[p].network)][req[p].tx_signature],
                          rpc.kind, verified)]
  /\ UNCHANGED <<rounds, entries, ledger, now, nreq, call>>

\* update_one({"_id": entry["_id"]}, {"$set": {"verified": ..., "updated_at": ...}})
ReverifyUpdate(p) ==
  /\ req[p].op = "reverify" /\ req[p].pc = "update"
  /\ entries' = [entries EXCEPT ![req[p].entry_id].verified = req[p].verified,
                                ![req[p].entry_id].updated_at = now]
  /\ req' = [req EXCEPT ![p].pc = "reread"]
  /\ UNCHANGED <<rounds, ledger, now, nreq, checks, call>>

\* entry = db["entry"].find_one({"_id": entry["_id"]}); return entry
ReverifyReread(p) ==
  /\ req[p].op = "reverify" /\ req[p].pc = "reread"
  /\ Respond(p, [req[p] EXCEPT !.verified = entries[req[p].entry_id].verified], 200, "")
  /\ UNCHANGED <<rounds, entries, ledger, now, nreq, checks, call>>

\* ----------------------------------------------------------- draw_winner
DrawGetRound(p) ==
  /\ Free(p)
  /\ \E rid \in RoundIds :
       LET r == [IdleReq EXCEPT !.op = "draw", !.round_id = rid]
           i == get_round(rid)
       IN IF i = 0 THEN Respond(p, r, 404, "Round not found")
          ELSE IF ~RoundIsActive(rounds[i]) THEN Respond(p, r, 400, "Round already closed")
          ELSE req' = [req EXCEPT ![p] = [r EXCEPT !.pc = "find_verified"]]
  /\ nreq' = nreq + 1
  /\ UNCHANGED <<rounds, entries, ledger, now, checks, call>>

\* Mutant: the draw always takes the first verified entry of the round.
FirstVerifiedOnly(round_id) ==
  IF VerifiedEntries(round_id) = {} THEN {}
  ELSE { FindOne(VerifiedEntries(round_id)) }

\* The documents random.choice can return: any one of the entries the find read.
DrawCandidates(round_id) == VerifiedEntries(round_id)

\* verified_entries = list(find(...)); winner = random.choice(verified_entries)
DrawFindVerified(p) ==
  /\ req[p].op = "draw" /\ req[p].pc = "find_verified"
  /\ IF DrawCandidates(req[p].round_id) = {}
       THEN Respond(p, req[p], 400, "No verified entries to draw from")
       ELSE \E i \in DrawCandidates(req[p].round_id) :
              req' = [req EXCEPT ![p].pc = "update", ![p].entry_id = i,
                        ![p].winner = Some(entries[i])]
  /\ UNCHANGED <<rounds, entries, ledger, now, nreq, checks, call>>

\* Mutant: the closure leaves is_active as it was.
CloseRoundStaysActive(d, winner) ==
  [d EXCEPT !.winner_address = Some(winner.wallet_address),
            !.drawn_at = Some(now),
            !.updated_at = now]

\* Mutant: the closure does not set drawn_at.
CloseRoundNoDrawnAt(d, winner) ==
  [d EXCEPT !.winner_address = Some(winner.wallet_address),
            !.is_active = FALSE,
            !.updated_at = now]

\* Mutant: the closure does not set winner_address.
CloseRoundNoWinner(d, winner) ==
  [d EXCEPT !.drawn_at = Some(now),
            !.is_active = FALSE,
            !.updated_at = now]

\* The $set of the round closure, applied to one round document.
CloseRound(d, winner) ==
  [d EXCEPT !.winner_address = Some(winner.wallet_address),
            !.drawn_at = Some(now),
            !.is_active = FALSE,
            !.updated_at = now]

\* db["lotteryround"].update_one({"round_id": round_id}, {"$set": {...}})
DrawUpdate(p) ==
  /\ req[p].op = "draw" /\ req[p].pc = "update"
  /\ LET i == get_round(req[p].round_id)
     IN rounds' = IF i = 0 THEN rounds
                  ELSE [rounds EXCEPT ![i] = CloseRound(rounds[i], req[p].winner[1])]
  /\ req' = [req EXCEPT ![p].pc = "reread"]
  /\ UNCHANGED <<entries, ledger, now, nreq, checks, call>>

\* updated = get_round(round_id); return {"round": updated, "winner": {...}}
DrawReread(p) ==
  /\ req[p].op = "draw" /\ req[p].pc = "reread"
  /\ IF get_round(req[p].round_id) = 0
       THEN Respond(p, req[p], 404, "Round not found")
       ELSE Respond(p, req[p], 200, "")
  /\ UNCHANGED <<rounds, entries, ledger, now, nreq, checks, call>>

\* ------------------------------------------------------------------ Next
Next ==
  \/ Tick
  \/ LedgerChange
  \/ \E p \in Procs : CreateFind(p)
  \/ \E p \in Procs : CreateInsert(p)
  \/ \E p \in Procs : EnterGetRound(p)
  \/ \E p \in Procs : EnterFindDup(p)
  \/ \E p \in Procs : EnterVerify(p)
  \/ \E p \in Procs : EnterInsert(p)
  \/ \E p \in Procs : ReverifyGetRound(p)
  \/ \E p \in Procs : ReverifyFindEntry(p)
  \/ \E p \in Procs : ReverifyVerify(p)
  \/ \E p \in Procs : ReverifyUpdate(p)
  \/ \E p \in Procs : ReverifyReread(p)
  \/ \E p \in Procs : DrawGetRound(p)
  \/ \E p \in Procs : DrawFindVerified(p)
  \/ \E p \in Procs : DrawUpdate(p)
  \/ \E p \in Procs : DrawReread(p)

Spec == Init /\ [][Next]_vars

\* ------------------------------------------- verify_signature_on_chain
\* The verifier on its own, for every argument and every RPC outcome: the
\* arguments are None, the empty string or an address; the fetched transaction
\* names any set of the addresses.
Addresses == Wallets \cup Treasuries
ExpectedWallets == {None, Some("")} \cup { Some(w) : w \in Wallets }
ExpectedTreasuries == {None, Some("")} \cup { Some(t) : t \in Treasuries }
RpcResponses ==
  {RpcException, RpcNoResult}
    \cup { RpcTx(m, k) : m \in {"absent", "ok", "err"}, k \in SUBSET Addresses }

VerifyInit ==
  /\ rounds = <<>> /\ entries = <<>> /\ checks = <<>>
  /\ ledger = [e \in Endpoints |-> [s \in Sigs |-> FALSE]]
  /\ now = 0
  /\ req = [p \in Procs |-> IdleReq]
  /\ nreq = 0
  /\ \E w \in ExpectedWallets, t \in ExpectedTreasuries :
       call = VerifierCall("post", w, t, RpcNoResult, FALSE)

\* requests.post(endpoint, json=payload, timeout=10); resp.json()
VerifyPost ==
  /\ call.pc = "post"
  /\ \E rpc \in RpcResponses : call' = [call EXCEPT !.pc = "decide", !.rpc = rpc]
  /\ UNCHANGED <<rounds, entries, ledger, now, req, nreq, checks>>

\* The checks on the response, the except clause, and the return.
VerifyReturn ==
  /\ call.pc = "decide"
  /\ call' = [call EXCEPT !.pc = "returned",
                !.result = verify_signature_on_chain(call.rpc,
                             call.expected_wallet, call.expected_treasury)]
  /\ UNCHANGED <<rounds, entries, ledger, now, req, nreq, checks>>

VerifyNext == VerifyPost \/ VerifyReturn

SpecVerify == VerifyInit /\ [][VerifyNext]_vars

\* ------------------------------------------------------ shared vocabulary
RoundIndexes == 1..Len(rounds)
EntryIndexes == 1..Len(entries)
EntriesWithSig(s) == { i \in EntryIndexes : entries[i].tx_signature = s }

Done(p, op) == req[p].op = op /\ req[p].pc = "done"
Succeeded(p, op) == Done(p, op) /\ req[p].status = 200
Failed(p, op, status, detail) ==
  Done(p, op) /\ req[p].status = status /\ req[p].detail = detail

\* This step is worker p accepting a new request for handler op.
Accepts(p, op) == nreq' = nreq + 1 /\ req'[p] # req[p] /\ req'[p].op = op

Open(d) == d.is_active /\ d.winner_address = None
Drawn(d) == ~d.is_active /\ d.winner_address # None

\* ------------------------------------------------------------------- C1
\* C1: the entry store never holds two entries with the same tx_signature, and
\* no two submissions of one signature, to whatever rounds, have both succeeded.
C1_SignatureUnique ==
  /\ \A s \in Sigs : Cardinality(EntriesWithSig(s)) <= 1
  /\ \A p, q \in Procs :
       (p # q /\ Succeeded(p, "enter") /\ Succeeded(q, "enter"))
         => req[p].tx_signature # req[q].tx_signature

\* ------------------------------------------------------------------- C2
\* C2: of the draw requests on one round at most one returns success.
C2_OneDrawSucceeds ==
  \A p, q \in Procs :
    (p # q /\ Succeeded(p, "draw") /\ Succeeded(q, "draw"))
      => req[p].round_id # req[q].round_id

\* ------------------------------------------------------------------- C3
\* C3: no entry is ever inserted for a round whose is_active is already false.
C3_NoInsertAfterClose ==
  [][ \A i \in 1..Len(entries') :
        i > Len(entries) => rounds[get_round(entries'[i].round_id)].is_active ]_vars

\* ------------------------------------------------------------------- C4
\* C4: a closed round stays closed in every later state; a draw that has
\* returned success has left its round closed; and a draw request that arrives
\* when the round is closed fails with 400 "Round already closed".
C4_DrawnStaysClosed ==
  [][ /\ \A i \in RoundIndexes :
           ~rounds[i].is_active => (i <= Len(rounds') /\ ~rounds'[i].is_active)
      /\ \A p \in Procs :
           (req'[p].op = "draw" /\ req'[p].pc = "done" /\ req'[p].status = 200)
             => ~rounds'[FindRound(rounds', req'[p].round_id)].is_active
      /\ \A p \in Procs :
           ( /\ Accepts(p, "draw")
             /\ get_round(req'[p].round_id) # 0
             /\ ~rounds[get_round(req'[p].round_id)].is_active )
             => /\ req'[p].pc = "done"
                /\ req'[p].status = 400
                /\ req'[p].detail = "Round already closed"
                /\ rounds' = rounds ]_vars

\* A second draw was refused on a round that an earlier draw closed.
C4_Witness ==
  \E p \in Procs :
    /\ Failed(p, "draw", 400, "Round already closed")
    /\ Drawn(rounds[get_round(req[p].round_id)])

\* ------------------------------------------------------------------- C5
\* C5: the winner a draw holds, and returns on success, is an entry document
\* of the drawn round that was read with verified = true; a successful draw
\* always has one.
C5_WinnerVerified ==
  \A p \in Procs :
    /\ Succeeded(p, "draw") => req[p].winner # None
    /\ (req[p].op = "draw" /\ req[p].winner # None)
         => /\ req[p].winner[1].round_id = req[p].round_id
            /\ req[p].winner[1].verified

\* A draw succeeded on a round that also holds an unverified entry.
C5_Witness ==
  \E p \in Procs :
    /\ Succeeded(p, "draw")
    /\ \E i \in EntryIndexes :
         entries[i].round_id = req[p].round_id /\ ~entries[i].verified

\* ------------------------------------------------------------------- C6
\* C6: an enter request that arrives for an existing round with is_active =
\* false is answered 400 "Round is closed" in that step, whatever its signature
\* and the ledger; it creates no entry and makes no ledger query.
C6_ClosedRoundRejects ==
  [][ \A p \in Procs :
        ( /\ Accepts(p, "enter")
          /\ get_round(req'[p].round_id) # 0
          /\ ~rounds[get_round(req'[p].round_id)].is_active )
          => /\ req'[p].pc = "done"
             /\ req'[p].status = 400
             /\ req'[p].detail = "Round is closed"
             /\ ~req'[p].queried
             /\ entries' = entries ]_vars

\* A submission of a signature with no entry yet, whose transaction is on the
\* ledger, was refused because the round is closed.
C6_Witness ==
  \E p \in Procs :
    /\ Failed(p, "enter", 400, "Round is closed")
    /\ EntriesWithSig(req[p].tx_signature) = {}
    /\ \A e \in Endpoints : ledger[e][req[p].tx_signature]

\* ------------------------------------------------------------------- C7
\* C7: for every round, winner_address and drawn_at are both null or both
\* set, and when they are set is_active is false.
C7_WinnerAndDrawnAt ==
  \A i \in RoundIndexes :
    /\ (rounds[i].winner_address = None) <=> (rounds[i].drawn_at = None)
    /\ rounds[i].winner_address # None => ~rounds[i].is_active

\* A round has been drawn.
C7_Witness ==
  \E i \in RoundIndexes :
    rounds[i].winner_address # None /\ rounds[i].drawn_at # None

\* ------------------------------------------------------------------- C8
\* C8: once a round's winner_address is non-null its value never changes.
C8_WinnerSetOnce ==
  [][ \A i \in RoundIndexes :
        rounds[i].winner_address # None
          => rounds'[i].winner_address = rounds[i].winner_address ]_vars

\* ------------------------------------------------------------------- C9
\* C9: every round is OPEN (active, no winner) or DRAWN (closed, winner set);
\* a DRAWN round stays DRAWN; and a round leaves OPEN only in the update step
\* of a draw on that round, a draw that then returns success.
C9_OpenOrDrawn ==
  [][ /\ \A i \in RoundIndexes : Open(rounds[i]) \/ Drawn(rounds[i])
      /\ \A i \in 1..Len(rounds') : Open(rounds'[i]) \/ Drawn(rounds'[i])
      /\ \A i \in RoundIndexes :
           Drawn(rounds[i]) => (i <= Len(rounds') /\ Drawn(rounds'[i]))
      /\ \A i \in RoundIndexes :
           (Open(rounds[i]) /\ ~Open(rounds'[i]))
             => \E p \in Procs :
                  /\ req[p].op = "draw" /\ req[p].pc = "update"
                  /\ req[p].round_id = rounds[i].round_id
                  /\ req'[p].pc = "reread"
      /\ \A p \in Procs :
           (req[p].op = "draw" /\ req[p].pc = "reread" /\ req'[p] # req[p])
             => req'[p].pc = "done" /\ req'[p].status = 200 ]_vars

\* One round has been drawn while another round is still open.
C9_Witness ==
  \E i, j \in RoundIndexes : Drawn(rounds[i]) /\ Open(rounds[j])

\* ------------------------------------------------------------------ C10
\* C10 as stated: an enter request whose signature already has an entry fails
\* with 400 "This transaction was already submitted", whatever existing round
\* it names, and leaves the entry store unchanged.
C10_DuplicateAlwaysConflict ==
  [][ \A p \in Procs :
        ( /\ Accepts(p, "enter")
          /\ get_round(req'[p].round_id) # 0
          /\ EntriesWithSig(req'[p].tx_signature) # {} )
          => /\ entries' = entries
             /\ req'[p].pc = "done" => req'[p].detail = "This transaction was already submitted" ]_vars

\* C10 amended: entries are never removed and keep their signature; an enter
\* request for an existing OPEN round proceeds to the duplicate check; and the
\* duplicate check of a signature that has an entry, in the same or another
\* round, answers 400 "This transaction was already submitted" and leaves both
\* collections unchanged.
C10_DuplicateConflictWhenOpen ==
  [][ /\ \A i \in EntryIndexes :
           i <= Len(entries') /\ entries'[i].tx_signature = entries[i].tx_signature
      /\ \A p \in Procs :
           ( /\ Accepts(p, "enter")
             /\ get_round(req'[p].round_id) # 0
             /\ rounds[get_round(req'[p].round_id)].is_active )
             => req'[p].pc = "find_dup" /\ entries' = entries
      /\ \A p \in Procs :
           ( /\ req[p].op = "enter" /\ req[p].pc = "find_dup"
             /\ req'[p] # req[p]
             /\ EntriesWithSig(req[p].tx_signature) # {} )
             => /\ req'[p].pc = "done"
                /\ req'[p].status = 400
                /\ req'[p].detail = "This transaction was already submitted"
                /\ entries' = entries
                /\ rounds' = rounds ]_vars

\* A signature that has an entry in one round was refused for another round.
C10_Witness ==
  \E p \in Procs :
    /\ Failed(p, "enter", 400, "This transaction was already submitted")
    /\ \E i \in EntriesWithSig(req[p].tx_signature) :
         entries[i].round_id # req[p].round_id
    /\ Cardinality(EntriesWithSig(req[p].tx_signature)) = 1

\* ------------------------------------------------------------------ C11
\* C11: the round collection never holds two rounds with the same round_id,
\* and no two create requests for one round_id have both succeeded.
C11_RoundIdUnique ==
  /\ \A i, j \in RoundIndexes : rounds[i].round_id = rounds[j].round_id => i = j
  /\ \A p, q \in Procs :
       (p # q /\ Succeeded(p, "create") /\ Succeeded(q, "create"))
         => req[p].round_id # req[q].round_id

\* ------------------------------------------------------------------ C12
\* C12: a draw request for an existing OPEN round proceeds to read the
\* verified entries; when that read finds no entry of the round with
\* verified = true, the draw fails with 400 "No verified entries to draw from"
\* and the step leaves every round and entry as it was.
C12_NoEligibleEntries ==
  [][ /\ \A p \in Procs :
           ( /\ Accepts(p, "draw")
             /\ get_round(req'[p].round_id) # 0
             /\ rounds[get_round(req'[p].round_id)].is_active )
             => req'[p].pc = "find_verified" /\ rounds' = rounds
      /\ \A p \in Procs :
           ( /\ req[p].op = "draw" /\ req[p].pc = "find_verified"
             /\ req'[p] # req[p]
             /\ \A i \in EntryIndexes :
                  entries[i].round_id = req[p].round_id => ~entries[i].verified )
             => /\ req'[p].pc = "done"
                /\ req'[p].status = 400
                /\ req'[p].detail = "No verified entries to draw from"
                /\ req'[p].winner = None
                /\ rounds' = rounds
                /\ entries' = entries ]_vars

\* A draw was refused on a round that is still open, without a winner or a
\* draw time, and holds only unverified entries, at least one.
C12_Witness ==
  \E p \in Procs :
    /\ Failed(p, "draw", 400, "No verified entries to draw from")
    /\ LET d == rounds[get_round(req[p].round_id)]
       IN d.is_active /\ d.winner_address = None /\ d.drawn_at = None
    /\ \E i \in EntryIndexes : entries[i].round_id = req[p].round_id
    /\ \A i \in EntryIndexes :
         entries[i].round_id = req[p].round_id => ~entries[i].verified

\* ------------------------------------------------------------------ C13
\* C13: a submission whose duplicate check finds no entry with its signature
\* goes on to query the ledger; the verdict it keeps is the verifier's verdict
\* for an outcome of querying the round's network for the signature, with the
\* submitted wallet and the round's treasury; its insert appends exactly one
\* entry carrying the request's round, wallet, signature and that verdict and
\* answers 200 whether the verdict is true or false; an entry's verified flag
\* changes only in the update of a reverify of that entry; and a draw picks
\* only entries whose verified flag is true.
C13_EntryStoredWithVerdict ==
  [][ \A p \in Procs :
        LET r == req[p]
            d == rounds[get_round(r.round_id)]
        IN /\ ( /\ r.op = "enter" /\ r.pc = "find_dup" /\ req'[p] # r
                /\ EntriesWithSig(r.tx_signature) = {} )
                => req'[p].pc = "verify" /\ entries' = entries
           /\ (r.op = "enter" /\ r.pc = "verify" /\ req'[p] # r)
                => /\ req'[p].pc = "insert"
                   /\ entries' = entries
                   /\ req'[p].verified \in
                        { Verdict(o, Some(r.wallet_address), Some(d.treasury_address)) :
                            o \in { RpcException,
                                    GetTransaction(ledger, Endpoint(d.network), r.tx_signature) } }
           /\ (r.op = "enter" /\ r.pc = "insert" /\ req'[p] # r)
                => /\ Len(entries') = Len(entries) + 1
                   /\ SubSeq(entries', 1, Len(entries)) = entries
                   /\ LET e == entries'[Len(entries')]
                      IN /\ e.round_id = r.round_id
                         /\ e.wallet_address = r.wallet_address
                         /\ e.tx_signature = r.tx_signature
                         /\ e.verified = r.verified
                   /\ req'[p].pc = "done" /\ req'[p].status = 200
           /\ \A i \in EntryIndexes :
                (i <= Len(entries') /\ entries'[i].verified # entries[i].verified)
                  => \E q \in Procs :
                       /\ req[q].op = "reverify" /\ req[q].pc = "update"
                       /\ req[q].entry_id = i /\ req'[q].pc = "reread"
           /\ (r.op = "draw" /\ r.pc = "find_verified" /\ req'[p].winner # None)
                => /\ req'[p].entry_id \in EntryIndexes
                   /\ entries[req'[p].entry_id].verified
                   /\ req'[p].winner[1] = entries[req'[p].entry_id] ]_vars

\* A submission succeeded and its entry is stored unverified.
C13_Witness ==
  \E p \in Procs :
    /\ Succeeded(p, "enter")
    /\ \E i \in EntriesWithSig(req[p].tx_signature) :
         entries[i].round_id = req[p].round_id /\ ~entries[i].verified

\* ------------------------------------------------------------------ C14
\* The parts of reverify's idempotence that rest on no query outcome: rounds
\* keep their network and treasury and entries their round, wallet and
\* signature, so every check of an entry has the parameters of its
\* submission; the update stores the verdict of the request's own check; and
\* an update that stores the value the entry already holds changes nothing
\* but that entry's updated_at.
ReverifyRewrites ==
  /\ \A i \in RoundIndexes :
       /\ i <= Len(rounds')
       /\ rounds'[i].round_id = rounds[i].round_id
       /\ rounds'[i].network = rounds[i].network
       /\ rounds'[i].treasury_address = rounds[i].treasury_address
  /\ \A i \in EntryIndexes :
       /\ i <= Len(entries')
       /\ entries'[i].round_id = entries[i].round_id
       /\ entries'[i].wallet_address = entries[i].wallet_address
       /\ entries'[i].tx_signature = entries[i].tx_signature
  /\ \A p \in Procs :
       (req[p].op = "reverify" /\ req[p].pc = "update" /\ req'[p] # req[p])
         => LET i == req[p].entry_id
            IN /\ entries'[i].verified = req[p].verified
               /\ rounds' = rounds
               /\ entries[i].verified = req[p].verified
                    => entries' = [entries EXCEPT ![i].updated_at = entries'[i].updated_at]

\* The step is the ledger query of a reverify request of worker p.
ReverifyQuery(p) ==
  req[p].op = "reverify" /\ req[p].pc = "verify" /\ req'[p] # req[p]

\* C14 as stated: when a reverify, with no other request in flight, queries
\* the ledger for an entry whose previous check was a reverify's, whose stored
\* flag is that check's verdict, and the ledger knows the transaction now
\* exactly if it did then, the new verdict is the stored flag; and the second
\* call rewrites nothing but updated_at.
C14_ReverifyIdempotent ==
  [][ /\ ReverifyRewrites
      /\ \A p \in Procs :
           LET i == req[p].entry_id
           IN ( /\ ReverifyQuery(p)
                /\ \A q \in Procs \ {p} : req[q].pc \in {"idle", "done"}
                /\ checks[i].by = "reverify"
                /\ entries[i].verified = checks[i].verdict
                /\ checks'[i].known = checks[i].known )
                => req'[p].verified = entries[i].verified ]_vars

\* C14 amended: the same, for two checks that also had the same kind of
\* outcome (both answered by the endpoint, or both failed); the previous
\* check may be the submission's.
C14_ReverifyIdempotentSameOutcome ==
  [][ /\ ReverifyRewrites
      /\ \A p \in Procs :
           LET i == req[p].entry_id
           IN ( /\ ReverifyQuery(p)
                /\ checks'[i].known = checks[i].known
                /\ checks'[i].kind = checks[i].kind )
                => /\ req'[p].verified = checks[i].verdict
                   /\ req'[p].wallet_address = entries[i].wallet_address
                   /\ req'[p].tx_signature = entries[i].tx_signature
                   /\ LET d == rounds[get_round(entries[i].round_id)]
                      IN /\ req'[p].network = d.network
                         /\ req'[p].treasury_address = d.treasury_address ]_vars

\* One reverify of an entry has returned and a second one has rewritten the
\* entry with the same verdict, false, at a later time: the landed transaction
\* does not name the entry's wallet, and the endpoint answered the query.
C14_Witness ==
  \E p, q \in Procs, i \in EntryIndexes :
    /\ p # q
    /\ Succeeded(q, "reverify")
    /\ req[p].op = "reverify" /\ req[p].pc = "reread" /\ req[p].entry_id = i
    /\ req[q].round_id = req[p].round_id
    /\ req[q].tx_signature = req[p].tx_signature
    /\ checks[i].by = "reverify" /\ checks[i].kind = "tx"
    /\ ~checks[i].verdict /\ ~entries[i].verified
    /\ entries[i].updated_at > entries[i].created_at

\* ------------------------------------------------------------------ C15
\* A step of reverify_entry: worker p's request moves and is a reverify.
ReverifyStep(p) == req'[p] # req[p] /\ req'[p].op = "reverify"

\* The entries of the round round_id that carry the signature tx_signature.
Addressed(round_id, tx_signature) ==
  { j \in EntryIndexes : /\ entries[j].round_id = round_id
                         /\ entries[j].tx_signature = tx_signature }

\* C15: every step of a reverify leaves all rounds alone, creates and deletes
\* no entry, and changes at most one entry, which belongs to the addressed
\* round, carries the addressed signature, and keeps every field but verified
\* and updated_at; the call answers 404 exactly when the round is missing
\* ("Round not found") or the round has no entry with that signature ("Entry
\* not found"), and such a step changes no entry at all.
C15_ReverifyFrame ==
  [][ \A p \in Procs :
        ReverifyStep(p) =>
          /\ rounds' = rounds
          /\ Len(entries') = Len(entries)
          /\ \A j, k \in EntryIndexes :
               entries'[j] # entries[j] /\ entries'[k] # entries[k] => j = k
          /\ \A j \in EntryIndexes :
               entries'[j] # entries[j] =>
                 /\ j \in Addressed(req'[p].round_id, req'[p].tx_signature)
                 /\ entries'[j] = [entries[j] EXCEPT
                                     !.verified = entries'[j].verified,
                                     !.updated_at = entries'[j].updated_at]
          /\ Accepts(p, "reverify") =>
               ( get_round(req'[p].round_id) = 0
                   <=> ( /\ req'[p].pc = "done" /\ req'[p].status = 404
                         /\ req'[p].detail = "Round not found" ) )
          /\ req[p].pc = "find_entry" =>
               ( Addressed(req[p].round_id, req[p].tx_signature) = {}
                   <=> ( /\ req'[p].pc = "done" /\ req'[p].status = 404
                         /\ req'[p].detail = "Entry not found" ) )
          /\ req'[p].status = 404 => entries' = entries
    ]_vars

\* One reverify has been refused because its round, which exists, holds no
\* entry with that signature although another round does, and another reverify
\* has rewritten its entry at a later time than the entry was created.
C15_Witness ==
  \E p, q \in Procs, i \in EntryIndexes :
    /\ Failed(q, "reverify", 404, "Entry not found")
    /\ get_round(req[q].round_id) # 0
    /\ EntriesWithSig(req[q].tx_signature) # {}
    /\ req[p].op = "reverify" /\ req[p].pc = "reread" /\ req[p].entry_id = i
    /\ entries[i].updated_at > entries[i].created_at

\* ------------------------------------------------------------------ C16
\* C16: whatever the arguments and the RPC outcome, the verifier returns a
\* boolean; it returns false when the query raised (timeout, transport failure,
\* malformed body), when the response has no result or a null one, and when
\* the transaction's meta.err is set; it returns true only for a fetched
\* transaction whose meta.err is not set.
C16_FailsClosed ==
  call.pc = "returned" =>
    /\ call.result \in BOOLEAN
    /\ call.rpc.kind \in {"exception", "noresult"} => call.result = FALSE
    /\ call.rpc.meta = "err" => call.result = FALSE
    /\ call.result = TRUE => call.rpc.kind = "tx" /\ call.rpc.meta # "err"

\* The verifier has returned false for a fetched transaction that names both
\* expected accounts but failed on chain.
C16_Witness ==
  /\ call.pc = "returned" /\ call.result = FALSE
  /\ call.rpc.kind = "tx" /\ call.rpc.meta = "err"
  /\ call.expected_wallet = Some("W1") /\ "W1" \in call.rpc.accountKeys
  /\ call.expected_treasury = Some("TREASURY1")
  /\ "TREASURY1" \in call.rpc.accountKeys

\* ------------------------------------------------------------------ C17
\* C17: when an expected wallet and an expected treasury are both supplied
\* (neither is None), the verifier returns true only if both strings are among
\* the fetched transaction's accountKeys.
C17_BothAccountsRequired ==
  ( /\ call.pc = "returned"
    /\ call.expected_wallet # None /\ call.expected_treasury # None
    /\ call.result = TRUE )
  => /\ call.expected_wallet[1] \in call.rpc.accountKeys
     /\ call.expected_treasury[1] \in call.rpc.accountKeys

\* ------------------------------------------------------------------ C18
\* C18: when a draw is about to read the verified entries of its round, each
\* of them, whatever its position and wallet, is a possible outcome of the
\* choice (one outcome per entry, so a wallet has as many as it has verified
\* entries); and the step that chooses takes exactly one entry, which is a
\* verified entry of that round, as the winner.
C18_WinnerAmongVerified ==
  [][ \A p \in Procs :
        ( req[p].op = "draw" /\ req[p].pc = "find_verified" ) =>
          /\ \A i \in { j \in EntryIndexes : /\ entries[j].round_id = req[p].round_id
                                             /\ entries[j].verified } :
               ENABLED ( /\ DrawFindVerified(p)
                         /\ req'[p].pc = "update"
                         /\ req'[p].entry_id = i )
          /\ ( req'[p] # req[p] /\ req'[p].pc = "update" ) =>
               /\ req'[p].entry_id \in EntryIndexes
               /\ entries[req'[p].entry_id].round_id = req[p].round_id
               /\ entries[req'[p].entry_id].verified
               /\ req'[p].winner = Some(entries[req'[p].entry_id])
    ]_vars

\* A draw on a round with two verified entries of different wallets has
\* chosen the one inserted last.
C18_Witness ==
  \E p \in Procs, i, j \in EntryIndexes :
    /\ req[p].op = "draw" /\ req[p].pc = "update" /\ req[p].entry_id = j
    /\ i < j
    /\ entries[i].round_id = req[p].round_id /\ entries[i].verified
    /\ entries[j].round_id = req[p].round_id /\ entries[j].verified
    /\ entries[i].wallet_address # entries[j].wallet_address

\* ------------------------------------------------------------------ C19
\* C19: whenever no request is in flight, every entry's verified flag is the
\* verdict of the most recent ledger check made for that entry.
C19_VerifiedIsLatestVerdict ==
  ( \A p \in Procs : req[p].pc \in {"idle", "done"} ) =>
    \A i \in EntryIndexes : entries[i].verified = checks[i].verdict

\* ------------------------------------------------------------------ C20
\* C20: in the step where a draw writes the closure of its round, the entry it
\* chose is verified in the store, and the winner_address it writes is the
\* wallet_address of an entry of that round.
C20_WinnerVerifiedAtClosure ==
  [][ \A p \in Procs :
        ( req[p].op = "draw" /\ req[p].pc = "update" /\ req'[p].pc = "reread" ) =>
          /\ entries[req[p].entry_id].verified
          /\ \E d \in RoundIndexes, i \in EntryIndexes :
               /\ rounds'[d].round_id = req[p].round_id
               /\ rounds'[d].winner_address # None
               /\ ~rounds'[d].is_active
               /\ entries[i].round_id = req[p].round_id
               /\ rounds'[d].winner_address = Some(entries[i].wallet_address)
    ]_vars

====
